---- MODULE Spec2Model ----
(***************************************************************************)
(* Model of scripts/validate_migration.py: the DatabaseValidator (five     *)
(* checks, run_all_validations, print_report, export_report) and main().   *)
(*                                                                         *)
(* The two PostgreSQL databases are the environment.  They start as exact  *)
(* copies of one another; a bounded number of setup steps (migration       *)
(* defects, failing queries, command-line and process conditions) then     *)
(* makes them differ.  After Start the databases no longer change and the  *)
(* program runs deterministically, one action per statement group of       *)
(* main() and one action per iteration of run_all_validations' loop.       *)
(*                                                                         *)
(* Table names are the integers 1..NumTables, standing for names in their  *)
(* lexicographic order.  A row is a pair <<c1, c2>> of column values.      *)
(***************************************************************************)
EXTENDS Integers, Sequences, FiniteSets, TLC

\* ---------------------------------------------------------------- bounds
NumTables == 3
MaxRows == 2
MaxSetupSteps == 1
MaxCalls == 2
\* sample_size of validate_data_integrity (1000 in the source), scaled down so
\* that LIMIT really cuts a table of MaxRows rows.
SampleSize == 1

\* The digest of hashlib.md5 has 32 hexadecimal digits and the detail line
\* shows the first 8 of them; the model keeps 4 digits and shows the first 2.
HashMod == 16 * 16 * 16 * 16
PrefixDiv == 16 * 16

Sides == {"source", "target"}
TableNames == 1..NumTables
PerTableKinds == {"count", "schema", "constraints", "checksum"}
PkChoices == {<< >>, <<1>>, <<1, 2>>, <<2, 1>>}

VARIABLES
    db,          \* db[side][t]: the table t of that database
    fail,        \* the queries that raise: <<side, kind, t>> (t = 0 for get_tables)
    reachable,   \* reachable[side]: psycopg2.connect succeeds
    output_file, \* args.output_file was given
    stdout_ok,   \* stdout can encode the report (print_report does not raise)
    file_ok,     \* open(output_file, 'w') succeeds
    hashOrder,   \* iteration order of a Python set of table names in this process
    library,     \* the validator is driven by a caller other than main()
    setupSteps,  \* setup steps taken so far
    pc,          \* position of the program
    conn,        \* conn[side]: "none", "open" or "closed"
    results,     \* DatabaseValidator.results
    calls,       \* calls of run_all_validations started so far
    returns,     \* returns[i]: the list returned by the i-th call, as it was then
    pending,     \* how the try block of main() was left
    printed,     \* the summary lines of print_report
    exported,    \* the report export_report wrote
    exitCode     \* process exit code, -1 while running

envVars == <<db, fail, reachable, output_file, stdout_ok, file_ok, hashOrder, library>>
progVars == <<conn, results, calls, returns, pending, printed, exported, exitCode>>
vars == <<db, fail, reachable, output_file, stdout_ok, file_ok, hashOrder, library,
          setupSteps, pc, conn, results, calls, returns, pending, printed, exported,
          exitCode>>

\* ------------------------------------------------------------- utilities
Range(s) == {s[i] : i \in 1..Len(s)}

Min(S) == CHOOSE x \in S : \A y \in S : x <= y

RECURSIVE SortedSeq(_)
\* The elements of a set of integers in ascending order.
SortedSeq(S) == IF S = {} THEN << >> ELSE <<Min(S)>> \o SortedSeq(S \ {Min(S)})

RECURSIVE Filter(_, _)
\* The subsequence of s whose elements are in S.
Filter(s, S) ==
    IF s = << >> THEN << >>
    ELSE (IF Head(s) \in S THEN <<Head(s)>> ELSE << >>) \o Filter(Tail(s), S)

Take(s, n) == SubSeq(s, 1, IF n < Len(s) THEN n ELSE Len(s))

Orderings(S) ==
    {p \in [1..Cardinality(S) -> S] : \A i, j \in 1..Cardinality(S) : i # j => p[i] # p[j]}

\* ------------------------------------------------------ the two databases
Column(name, type) ==
    [name |-> name, type |-> type, max_length |-> 0, nullable |-> "NO", default |-> "none"]

BaseSchema == <<Column("id", "integer"), Column("val", "text")>>

\* Table 1 has a single-column primary key, table 2 none, table 3 a composite
\* one, and so on in turn.  Head(pk) is the key column the catalog reports first:
\* for the composite key it is the second column, whose values differ from
\* row to row, so that ORDER BY on it is seen to reorder the rows.
BasePk(t) == IF t % 3 = 1 THEN <<1>> ELSE IF t % 3 = 2 THEN << >> ELSE <<2, 1>>

BaseRows(t) ==
    IF t % 3 = 0 THEN [i \in 1..MaxRows |-> <<1, i>>] ELSE [i \in 1..MaxRows |-> <<i, 1>>]

BaseTable(t) ==
    [present |-> TRUE, schema |-> BaseSchema, pk |-> BasePk(t), others |-> << >>,
     rows |-> BaseRows(t)]

\* A primary key admits the rows: no two rows agree on every key column.
KeyUnique(rows, pk) ==
    pk = << >> \/
    \A i, j \in 1..Len(rows) : i # j => \E c \in Range(pk) : rows[i][c] # rows[j][c]

Init ==
    /\ db = [s \in Sides |-> [t \in TableNames |-> BaseTable(t)]]
    /\ fail = {}
    /\ reachable = [s \in Sides |-> TRUE]
    /\ output_file = FALSE
    /\ stdout_ok = TRUE
    /\ file_ok = TRUE
    /\ hashOrder = SortedSeq(TableNames)
    /\ library = FALSE
    /\ setupSteps = 0
    /\ pc = "setup"
    /\ conn = [s \in Sides |-> "none"]
    /\ results = << >>
    /\ calls = 0
    /\ returns = << >>
    /\ pending = "none"
    /\ printed = << >>
    /\ exported = << >>
    /\ exitCode = -1

\* ----------------------------------------------------------- setup steps
CanSetup == pc = "setup" /\ setupSteps < MaxSetupSteps

SetTable(s, t, rec) ==
    /\ db' = [db EXCEPT ![s][t] = rec]
    /\ setupSteps' = setupSteps + 1
    /\ UNCHANGED <<fail, reachable, output_file, stdout_ok, file_ok, hashOrder, library,
                   pc>>
    /\ UNCHANGED progVars

SetEnv ==
    /\ setupSteps' = setupSteps + 1
    /\ UNCHANGED pc
    /\ UNCHANGED progVars

DropTable(s, t) ==
    /\ CanSetup /\ db[s][t].present
    /\ SetTable(s, t, [db[s][t] EXCEPT !.present = FALSE])

DeleteRow(s, t) ==
    /\ CanSetup /\ db[s][t].present /\ db[s][t].rows # << >>
    /\ SetTable(s, t, [db[s][t] EXCEPT !.rows = SubSeq(@, 1, Len(@) - 1)])

TruncateTable(s, t) ==
    /\ CanSetup /\ db[s][t].present /\ Len(db[s][t].rows) > 1
    /\ SetTable(s, t, [db[s][t] EXCEPT !.rows = << >>])

\* The same rows in another physical order: the first row moves to the end.
ReorderRows(s, t) ==
    /\ CanSetup /\ db[s][t].present /\ Len(db[s][t].rows) > 1
    /\ SetTable(s, t, [db[s][t] EXCEPT !.rows = Tail(@) \o <<Head(@)>>])

UpdateValue(s, t) ==
    /\ CanSetup /\ db[s][t].present /\ db[s][t].rows # << >>
    /\ LET new == [db[s][t].rows EXCEPT ![1] = <<@[1], 9>>]
       IN  /\ new # db[s][t].rows
           /\ KeyUnique(new, db[s][t].pk)
           /\ SetTable(s, t, [db[s][t] EXCEPT !.rows = new])

AddColumn(s, t) ==
    /\ CanSetup /\ db[s][t].present
    /\ \A i \in 1..Len(db[s][t].schema) : db[s][t].schema[i].name # "extra"
    /\ SetTable(s, t, [db[s][t] EXCEPT !.schema = Append(@, Column("extra", "text"))])

DropColumn(s, t) ==
    /\ CanSetup /\ db[s][t].present /\ db[s][t].schema # << >>
    /\ SetTable(s, t, [db[s][t] EXCEPT !.schema = SubSeq(@, 1, Len(@) - 1)])

RenameColumn(s, t) ==
    /\ CanSetup /\ db[s][t].present
    /\ \E i \in 1..Len(db[s][t].schema) :
          /\ db[s][t].schema[i].name = "val"
          /\ SetTable(s, t, [db[s][t] EXCEPT !.schema[i].name = "value"])

RetypeColumn(s, t) ==
    /\ CanSetup /\ db[s][t].present
    /\ \E i \in 1..Len(db[s][t].schema) :
          /\ db[s][t].schema[i].type = "text"
          /\ SetTable(s, t, [db[s][t] EXCEPT !.schema[i].type = "character varying"])

\* A change of max_length, nullable or default of the first column.
AlterColumnAttr(s, t, attr) ==
    /\ CanSetup /\ db[s][t].present /\ db[s][t].schema # << >>
    /\ \/ /\ attr = "max_length" /\ db[s][t].schema[1].max_length = 0
          /\ SetTable(s, t, [db[s][t] EXCEPT !.schema[1].max_length = 255])
       \/ /\ attr = "nullable" /\ db[s][t].schema[1].nullable = "NO"
          /\ SetTable(s, t, [db[s][t] EXCEPT !.schema[1].nullable = "YES"])
       \/ /\ attr = "default" /\ db[s][t].schema[1].default = "none"
          /\ SetTable(s, t, [db[s][t] EXCEPT !.schema[1].default = "0"])

AlterPrimaryKey(s, t, pk) ==
    /\ CanSetup /\ db[s][t].present /\ pk # db[s][t].pk
    /\ KeyUnique(db[s][t].rows, pk)
    /\ SetTable(s, t, [db[s][t] EXCEPT !.pk = pk])

\* A constraint of another kind on the second column.
AddConstraint(s, t, kind) ==
    /\ CanSetup /\ db[s][t].present /\ db[s][t].others = << >>
    /\ SetTable(s, t, [db[s][t] EXCEPT
                          !.others = <<[name |-> "val_key", type |-> kind, column |-> 2]>>])

\* The query of that kind raises on that connection (for that table).
FailQuery(s, kind, t) ==
    /\ CanSetup /\ <<s, kind, t>> \notin fail
    /\ (kind = "tables") = (t = 0)
    /\ fail' = fail \cup {<<s, kind, t>>}
    /\ SetEnv
    /\ UNCHANGED <<db, reachable, output_file, stdout_ok, file_ok, hashOrder, library>>

MakeUnreachable(s) ==
    /\ CanSetup /\ reachable[s]
    /\ reachable' = [reachable EXCEPT ![s] = FALSE]
    /\ SetEnv
    /\ UNCHANGED <<db, fail, output_file, stdout_ok, file_ok, hashOrder, library>>

\* --output-file is given, naming a file that can or cannot be written.
GiveOutputFile(writable) ==
    /\ CanSetup /\ ~output_file
    /\ output_file' = TRUE
    /\ file_ok' = writable
    /\ SetEnv
    /\ UNCHANGED <<db, fail, reachable, stdout_ok, hashOrder, library>>

BreakStdout ==
    /\ CanSetup /\ stdout_ok
    /\ stdout_ok' = FALSE
    /\ SetEnv
    /\ UNCHANGED <<db, fail, reachable, output_file, file_ok, hashOrder, library>>

\* Another hash seed: sets of table names iterate in another order.
SetHashSeed(p) ==
    /\ CanSetup /\ p # hashOrder /\ hashOrder = SortedSeq(TableNames)
    /\ hashOrder' = p
    /\ SetEnv
    /\ UNCHANGED <<db, fail, reachable, output_file, stdout_ok, file_ok, library>>

UseAsLibrary ==
    /\ CanSetup /\ ~library
    /\ library' = TRUE
    /\ SetEnv
    /\ UNCHANGED <<db, fail, reachable, output_file, stdout_ok, file_ok, hashOrder>>

Setup ==
    \/ \E s \in Sides, t \in TableNames :
          \/ DropTable(s, t)
          \/ DeleteRow(s, t)
          \/ TruncateTable(s, t)
          \/ ReorderRows(s, t)
          \/ UpdateValue(s, t)
          \/ AddColumn(s, t)
          \/ DropColumn(s, t)
          \/ RenameColumn(s, t)
          \/ RetypeColumn(s, t)
          \/ \E attr \in {"max_length", "nullable", "default"} : AlterColumnAttr(s, t, attr)
          \/ \E pk \in PkChoices : AlterPrimaryKey(s, t, pk)
          \/ \E kind \in {"UNIQUE", "FOREIGN KEY"} : AddConstraint(s, t, kind)
    \/ \E s \in Sides, kind \in PerTableKinds \cup {"tables"}, t \in TableNames \cup {0} :
          FailQuery(s, kind, t)
    \/ \E s \in Sides : MakeUnreachable(s)
    \/ \E w \in BOOLEAN : GiveOutputFile(w)
    \/ BreakStdout
    \/ \E p \in Orderings(TableNames) : SetHashSeed(p)
    \/ UseAsLibrary

\* -------------------------------------------------- the catalog queries
\* cursor.execute raises: the query was made to fail, or it names a relation
\* the database does not have (COUNT(*) FROM t, t::regclass).
Raises(s, kind, t) ==
    \/ <<s, kind, t>> \in fail
    \/ kind \in {"count", "checksum"} /\ t \in TableNames /\ ~db[s][t].present

\* Mutant: the listing has no ORDER BY; the tables come in the process's set order.
get_tables_unordered(s) == Filter(hashOrder, {t \in TableNames : db[s][t].present})

get_tables(s) == SortedSeq({t \in TableNames : db[s][t].present})

get_row_count(s, t) == Len(db[s][t].rows)

\* information_schema.columns has no row for an absent table.
get_table_schema(s, t) == IF db[s][t].present THEN db[s][t].schema ELSE << >>

\* One row per key column of each constraint of the table.
get_constraints(s, t) ==
    IF db[s][t].present
    THEN [i \in 1..Len(db[s][t].pk) |->
             [name |-> "pkey", type |-> "PRIMARY KEY", column |-> db[s][t].pk[i]]]
         \o db[s][t].others
    ELSE << >>

RECURSIVE InsertByColumn(_, _, _)
\* row put into the sequence sorted on column c, after the rows of equal key.
InsertByColumn(sorted, row, c) ==
    IF sorted = << >> THEN <<row>>
    ELSE IF row[c] < Head(sorted)[c] THEN <<row>> \o sorted
         ELSE <<Head(sorted)>> \o InsertByColumn(Tail(sorted), row, c)

RECURSIVE OrderBy(_, _)
\* ORDER BY column c ascending; rows of equal key stay in physical order.
OrderBy(rows, c) ==
    IF rows = << >> THEN << >>
    ELSE InsertByColumn(OrderBy(SubSeq(rows, 1, Len(rows) - 1), c), rows[Len(rows)], c)

\* Mutant: the sampler never orders the rows.
SampleRows_unordered(rows, pk, limit) == Take(rows, limit)

\* Mutant: only a single-column key orders the sample; a composite key falls
\* back to LIMIT alone.
SampleRows_singleKeyOnly(rows, pk, limit) ==
    IF Len(pk) = 1 THEN Take(OrderBy(rows, Head(pk)), limit) ELSE Take(rows, limit)

\* SELECT * ... LIMIT limit, ordered by the key column the lookup returned first,
\* or not ordered at all when the lookup returned no row.
SampleRows(rows, pk, limit) ==
    IF pk # << >> THEN Take(OrderBy(rows, Head(pk)), limit) ELSE Take(rows, limit)

RECURSIVE Serialize(_)
\* str(rows): the values of each row in fetch order, each row closed by a 0.
Serialize(rows) ==
    IF rows = << >> THEN << >>
    ELSE <<Head(rows)[1], Head(rows)[2], 0>> \o Serialize(Tail(rows))

RECURSIVE Digest(_)
\* hashlib.md5(...).hexdigest(): an order-sensitive hash of the serialized rows,
\* each value multiplied through so that it reaches the leading digits too.
Digest(data) ==
    IF data = << >> THEN 7
    ELSE ((Digest(SubSeq(data, 1, Len(data) - 1)) + data[Len(data)] + 1) * 25173) % HashMod

\* Mutant: the target side is sampled with another limit than the source side.
get_data_checksum_otherLimit(s, t, limit) ==
    Digest(Serialize(SampleRows(db[s][t].rows, db[s][t].pk,
                                IF s = "target" THEN limit + 1 ELSE limit)))

get_data_checksum(s, t, limit) == Digest(Serialize(SampleRows(db[s][t].rows, db[s][t].pk, limit)))

\* checksum[:8]
Prefix(checksum) == checksum \div PrefixDiv

\* --------------------------------------------------------- result values
None == [kind |-> "none"]
List(items) == [kind |-> "list", items |-> items]

ValidationResult(name, passed, source_value, target_value, message) ==
    [check_name |-> name, passed |-> passed, source_value |-> source_value,
     target_value |-> target_value, message |-> message]

\* What a check function did: it appended result, or it raised exc.
Returned(result) == [raised |-> FALSE, result |-> result]
Raised(exc) == [raised |-> TRUE, exc |-> exc]

\* The elements of a Python set of table names, in the set's iteration order.
SetIter(S) == Filter(hashOrder, S)

\* The first source-side query of that kind that raises, in table order.
SourceRaises(kind) == {t \in Range(get_tables("source")) : Raises("source", kind, t)}

\* ------------------------------------------------------- Table Existence
\* Mutant: a table found in the target only fails the check as well.
ExistencePassed_noExtra(missing_in_target, extra_in_target) ==
    missing_in_target = {} /\ extra_in_target = {}

ExistencePassed(missing_in_target, extra_in_target) == missing_in_target = {}

ExistenceMessage(source_tables, missing_in_target, extra_in_target) ==
    IF missing_in_target # {}
    THEN [text |-> "Missing tables in target", tables |-> SetIter(missing_in_target)]
    ELSE IF extra_in_target # {}
         THEN [text |-> "Extra tables in target (OK)", tables |-> SetIter(extra_in_target)]
         ELSE [text |-> "All tables present in both databases",
               n |-> Cardinality(source_tables)]

validate_table_existence ==
    IF Raises("source", "tables", 0) THEN Raised(<<"source", "tables", 0>>)
    ELSE IF Raises("target", "tables", 0) THEN Raised(<<"target", "tables", 0>>)
    ELSE LET source_tables == Range(get_tables("source"))
             target_tables == Range(get_tables("target"))
             missing_in_target == source_tables \ target_tables
             extra_in_target == target_tables \ source_tables
         IN  Returned(ValidationResult(
                 "Table Existence",
                 ExistencePassed(missing_in_target, extra_in_target),
                 List(SetIter(source_tables)),
                 List(SetIter(target_tables)),
                 ExistenceMessage(source_tables, missing_in_target, extra_in_target)))

\* ------------------------------------------------------------ Row Counts
TargetRowCount(t) == IF Raises("target", "count", t) THEN 0 ELSE get_row_count("target", t)

\* Mutant: a target that holds at least the source's rows matches.
CountMatch_atLeast(source_count, target_count) == source_count <= target_count

CountMatch(source_count, target_count) == source_count = target_count

RowCountLine(t) ==
    LET source_count == get_row_count("source", t)
        target_count == TargetRowCount(t)
    IN  [status |-> IF CountMatch(source_count, target_count) THEN "ok" ELSE "bad",
         table |-> t, source_count |-> source_count, target_count |-> target_count]

AllOk(details) == \A i \in 1..Len(details) : details[i].status = "ok"

validate_row_counts ==
    IF Raises("source", "tables", 0) THEN Raised(<<"source", "tables", 0>>)
    ELSE IF SourceRaises("count") # {}
    THEN Raised(<<"source", "count", Min(SourceRaises("count"))>>)
    ELSE LET tables == get_tables("source")
             details == [i \in 1..Len(tables) |-> RowCountLine(tables[i])]
             all_match == AllOk(details)
         IN  Returned(ValidationResult(
                 "Row Counts", all_match, List(details), None,
                 [text |-> IF all_match THEN "All row counts match"
                                        ELSE "Row count mismatch detected"]))

\* ------------------------------------------------------ Schema Structure
TargetSchema(t) == IF Raises("target", "schema", t) THEN << >> ELSE get_table_schema("target", t)

\* {col['name']: col['type'] for col in schema}: a later column of the same
\* name replaces an earlier one.
ColsDict(schema) ==
    [n \in {schema[i].name : i \in 1..Len(schema)} |->
        LET last == CHOOSE i \in 1..Len(schema) :
                        /\ schema[i].name = n
                        /\ \A j \in 1..Len(schema) : schema[j].name = n => j <= i
        IN  schema[last].type]

\* Mutant: only the column names are compared.
SchemaMatch_namesOnly(source_cols, target_cols) == DOMAIN source_cols = DOMAIN target_cols

SchemaMatch(source_cols, target_cols) == source_cols = target_cols

SchemaLine(t) ==
    LET source_cols == ColsDict(get_table_schema("source", t))
        target_cols == ColsDict(TargetSchema(t))
    IN  IF SchemaMatch(source_cols, target_cols)
        THEN [status |-> "ok", table |-> t, columns |-> Cardinality(DOMAIN source_cols)]
        ELSE [status |-> "bad", table |-> t,
              diff_cols |-> (DOMAIN source_cols \ DOMAIN target_cols)
                            \cup (DOMAIN target_cols \ DOMAIN source_cols)]

validate_schemas ==
    IF Raises("source", "tables", 0) THEN Raised(<<"source", "tables", 0>>)
    ELSE IF SourceRaises("schema") # {}
    THEN Raised(<<"source", "schema", Min(SourceRaises("schema"))>>)
    ELSE LET tables == get_tables("source")
             details == [i \in 1..Len(tables) |-> SchemaLine(tables[i])]
             all_match == AllOk(details)
         IN  Returned(ValidationResult(
                 "Schema Structure", all_match, List(details), None,
                 [text |-> IF all_match THEN "All schemas match"
                                        ELSE "Schema differences detected"]))

\* ----------------------------------------------------------- Constraints
TargetConstraints(t) ==
    IF Raises("target", "constraints", t) THEN << >> ELSE get_constraints("target", t)

\* Mutant: UNIQUE constraint rows are counted with the primary key's.
IsPrimaryKeyRow_orUnique(c) == c.type \in {"PRIMARY KEY", "UNIQUE"}

IsPrimaryKeyRow(c) == c.type = "PRIMARY KEY"

PrimaryKeyRows(constraints) == SelectSeq(constraints, IsPrimaryKeyRow)

PkMatch(source_pk, target_pk) == Len(source_pk) = Len(target_pk)

ConstraintLine(t) ==
    LET source_pk == PrimaryKeyRows(get_constraints("source", t))
        target_pk == PrimaryKeyRows(TargetConstraints(t))
    IN  IF PkMatch(source_pk, target_pk)
        THEN [status |-> "ok", table |-> t, text |-> "Constraints present"]
        ELSE [status |-> "bad", table |-> t, text |-> "Primary key mismatch"]

validate_constraints ==
    IF Raises("source", "tables", 0) THEN Raised(<<"source", "tables", 0>>)
    ELSE IF SourceRaises("constraints") # {}
    THEN Raised(<<"source", "constraints", Min(SourceRaises("constraints"))>>)
    ELSE LET tables == get_tables("source")
             details == [i \in 1..Len(tables) |-> ConstraintLine(tables[i])]
             all_match == AllOk(details)
         IN  Returned(ValidationResult(
                 "Constraints", all_match, List(details), None,
                 [text |-> IF all_match THEN "All constraints present"
                                        ELSE "Missing constraints detected"]))

\* -------------------------------------------------------- Data Integrity
ChecksumMatch(source_checksum, target_checksum) == source_checksum = target_checksum

IntegrityLine(t, sample_size) ==
    IF Raises("source", "checksum", t)
    THEN [status |-> "bad", table |-> t, error |-> <<"source", "checksum", t>>]
    ELSE IF Raises("target", "checksum", t)
    THEN [status |-> "bad", table |-> t, error |-> <<"target", "checksum", t>>]
    ELSE LET source_checksum == get_data_checksum("source", t, sample_size)
             target_checksum == get_data_checksum("target", t, sample_size)
         IN  [status |-> IF ChecksumMatch(source_checksum, target_checksum)
                         THEN "ok" ELSE "bad",
              table |-> t,
              source_prefix |-> Prefix(source_checksum),
              target_prefix |-> Prefix(target_checksum)]

validate_data_integrity(sample_size) ==
    IF Raises("source", "tables", 0) THEN Raised(<<"source", "tables", 0>>)
    ELSE LET tables == get_tables("source")
             details == [i \in 1..Len(tables) |-> IntegrityLine(tables[i], sample_size)]
             all_match == AllOk(details)
         IN  Returned(ValidationResult(
                 "Data Integrity", all_match, List(details), None,
                 [text |-> IF all_match THEN "Data integrity verified"
                                        ELSE "Data integrity issues detected"]))

\* ------------------------------------------------------------ the program
\* What no step of the validator core changes.
CoreFrame == UNCHANGED <<db, fail, reachable, output_file, stdout_ok, file_ok, hashOrder,
                         library, setupSteps, conn, exitCode>>

\* The setup ends: main() reaches its connection code, or a library caller
\* holds two open connections of its own.
Start ==
    /\ pc = "setup"
    /\ pc' = IF library THEN "new_validator" ELSE "connect_source"
    /\ conn' = IF library THEN [s \in Sides |-> "open"] ELSE conn
    /\ UNCHANGED envVars
    /\ UNCHANGED <<setupSteps, results, calls, returns, pending, printed, exported, exitCode>>

ConnectSource ==
    /\ pc = "connect_source"
    /\ IF reachable["source"]
       THEN /\ conn' = [conn EXCEPT !["source"] = "open"]
            /\ pc' = "connect_target"
            /\ UNCHANGED exitCode
       ELSE /\ exitCode' = 1
            /\ pc' = "done"
            /\ UNCHANGED conn
    /\ UNCHANGED envVars
    /\ UNCHANGED <<setupSteps, results, calls, returns, pending, printed, exported>>

\* Mutant: the source connection is not closed when the target cannot be reached.
ConnectTarget_leavesSourceOpen ==
    /\ pc = "connect_target"
    /\ IF reachable["target"]
       THEN /\ conn' = [conn EXCEPT !["target"] = "open"]
            /\ pc' = "new_validator"
            /\ UNCHANGED exitCode
       ELSE /\ exitCode' = 1
            /\ pc' = "done"
            /\ UNCHANGED conn
    /\ UNCHANGED envVars
    /\ UNCHANGED <<setupSteps, results, calls, returns, pending, printed, exported>>

ConnectTarget ==
    /\ pc = "connect_target"
    /\ IF reachable["target"]
       THEN /\ conn' = [conn EXCEPT !["target"] = "open"]
            /\ pc' = "new_validator"
            /\ UNCHANGED exitCode
       ELSE /\ conn' = [conn EXCEPT !["source"] = "closed"]
            /\ exitCode' = 1
            /\ pc' = "done"
    /\ UNCHANGED envVars
    /\ UNCHANGED <<setupSteps, results, calls, returns, pending, printed, exported>>

\* DatabaseValidator.__init__
NewValidator ==
    /\ pc = "new_validator"
    /\ results' = << >>
    /\ pc' = "run_all"
    /\ CoreFrame
    /\ UNCHANGED <<calls, returns, pending, printed, exported>>

\* run_all_validations is entered: the banner, the list of the five checks.
RunAllValidations ==
    /\ pc = "run_all"
    /\ calls' = calls + 1
    /\ pc' = "Table Existence"
    /\ CoreFrame
    /\ UNCHANGED <<results, returns, pending, printed, exported>>

ErrorResult(name, exc) ==
    ValidationResult(name, FALSE, None, None, [text |-> "Error", exc |-> exc])

\* Mutant: the new result is put in front of the list.
Iteration_inFront(name, outcome) ==
    <<IF outcome.raised THEN ErrorResult(name, outcome.exc) ELSE outcome.result>> \o results

\* One iteration of the loop: the check appends its result, or it raises and
\* the except clause appends the error result.
Iteration(name, outcome) ==
    Append(results, IF outcome.raised THEN ErrorResult(name, outcome.exc) ELSE outcome.result)

RunCheck(name, outcome, next) ==
    /\ pc = name
    /\ results' = Iteration(name, outcome)
    /\ pc' = next
    /\ CoreFrame
    /\ UNCHANGED <<calls, returns, pending, printed, exported>>

CheckTableExistence == RunCheck("Table Existence", validate_table_existence, "Row Counts")

CheckRowCounts == RunCheck("Row Counts", validate_row_counts, "Schema Structure")

CheckSchemas == RunCheck("Schema Structure", validate_schemas, "Constraints")

CheckConstraints == RunCheck("Constraints", validate_constraints, "Data Integrity")

CheckDataIntegrity ==
    RunCheck("Data Integrity", validate_data_integrity(SampleSize), "return")

\* return self.results
ReturnResults ==
    /\ pc = "return"
    /\ returns' = Append(returns, results)
    /\ pc' = "returned"
    /\ CoreFrame
    /\ UNCHANGED <<results, calls, pending, printed, exported>>

\* A library caller calls run_all_validations on the same validator again.
CallAgain ==
    /\ pc = "returned" /\ library /\ calls < MaxCalls
    /\ pc' = "run_all"
    /\ CoreFrame
    /\ UNCHANGED <<results, calls, returns, pending, printed, exported>>

PassedCount(rs) == Cardinality({i \in 1..Len(rs) : rs[i].passed})

AllPassed(rs) == \A i \in 1..Len(rs) : rs[i].passed

\* print_report: the SUMMARY line and the verdict; it raises when stdout cannot
\* take the report.
PrintReport ==
    /\ pc = "returned"
    /\ IF stdout_ok
       THEN /\ printed' = [passed_count |-> PassedCount(results),
                           total_count |-> Len(results),
                           validated |-> PassedCount(results) = Len(results)]
            /\ pc' = IF output_file THEN "export" ELSE IF library THEN "done" ELSE "sys_exit"
            /\ UNCHANGED pending
       ELSE /\ pending' = "exception"
            /\ pc' = IF library THEN "done" ELSE "finally"
            /\ UNCHANGED printed
    /\ CoreFrame
    /\ UNCHANGED <<results, calls, returns, exported>>

ExportedResult(r) == [check_name |-> r.check_name, passed |-> r.passed, message |-> r.message]

\* export_report: it raises when the file cannot be opened for writing.
ExportReport ==
    /\ pc = "export"
    /\ IF file_ok
       THEN /\ exported' = [total_checks |-> Len(results),
                            passed |-> PassedCount(results),
                            failed |-> Len(results) - PassedCount(results),
                            results |-> [i \in 1..Len(results) |-> ExportedResult(results[i])]]
            /\ pc' = IF library THEN "done" ELSE "sys_exit"
            /\ UNCHANGED pending
       ELSE /\ pending' = "exception"
            /\ pc' = IF library THEN "done" ELSE "finally"
            /\ UNCHANGED exported
    /\ CoreFrame
    /\ UNCHANGED <<results, calls, returns, printed>>

\* sys.exit(0 if all_passed else 1); results is the list run_all_validations
\* returned, which is the validator's own list.
SysExit ==
    /\ pc = "sys_exit"
    /\ pending' = IF AllPassed(results) THEN "exit0" ELSE "exit1"
    /\ pc' = "finally"
    /\ UNCHANGED envVars
    /\ UNCHANGED <<setupSteps, conn, results, calls, returns, printed, exported, exitCode>>

\* The finally clause of main(), then the interpreter ends the process: with the
\* code of SystemExit, or with 1 for an exception nobody caught.
\* Mutant: an exception that leaves main() uncaught ends the process with 0.
ExitStatus_uncaughtIsZero(how) == IF how = "exit1" THEN 1 ELSE 0

ExitStatus(how) == IF how = "exit0" THEN 0 ELSE 1

Finally ==
    /\ pc = "finally"
    /\ conn' = [s \in Sides |-> "closed"]
    /\ exitCode' = ExitStatus(pending)
    /\ pc' = "done"
    /\ UNCHANGED envVars
    /\ UNCHANGED <<setupSteps, results, calls, returns, pending, printed, exported>>

Next ==
    \/ Setup
    \/ Start
    \/ ConnectSource
    \/ ConnectTarget
    \/ NewValidator
    \/ RunAllValidations
    \/ CheckTableExistence
    \/ CheckRowCounts
    \/ CheckSchemas
    \/ CheckConstraints
    \/ CheckDataIntegrity
    \/ ReturnResults
    \/ CallAgain
    \/ PrintReport
    \/ ExportReport
    \/ SysExit
    \/ Finally

Spec == Init /\ [][Next]_vars

\* ================================================================ claims
CheckNames ==
    <<"Table Existence", "Row Counts", "Schema Structure", "Constraints", "Data Integrity">>

PerTableChecks == {"Row Counts", "Schema Structure", "Constraints", "Data Integrity"}

KindOf(name) ==
    IF name = "Row Counts" THEN "count"
    ELSE IF name = "Schema Structure" THEN "schema"
    ELSE IF name = "Constraints" THEN "constraints"
    ELSE "checksum"

\* The facts of the two databases, read off db without the validator's code.
SourceTables == {t \in TableNames : db["source"][t].present}
TargetTables == {t \in TableNames : db["target"][t].present}
ListingFails == <<"source", "tables", 0>> \in fail \/ <<"target", "tables", 0>> \in fail
SourceListingFails == <<"source", "tables", 0>> \in fail
TargetUnreadable(kind, t) == ~db["target"][t].present \/ <<"target", kind, t>> \in fail
SourceFailsSome(kind) == \E t \in SourceTables : <<"source", kind, t>> \in fail

ResultsNamed(name) == {results[i] : i \in {j \in 1..Len(results) : results[j].check_name = name}}

Lines(r) == IF r.source_value.kind = "list" THEN Range(r.source_value.items) ELSE {}

LinesOf(r, t) == {l \in Lines(r) : l.table = t}

Triples(rs) == [i \in 1..Len(rs) |-> <<rs[i].check_name, rs[i].passed, rs[i].message>>]

\* ---------------------------------------------------------------------
\* C1: every call of run_all_validations returns exactly five results, one per
\* check and each under its check's name; a check that raised contributes
\* the failed result carrying the exception.
OutcomeOf(name) ==
    IF name = "Table Existence" THEN validate_table_existence
    ELSE IF name = "Row Counts" THEN validate_row_counts
    ELSE IF name = "Schema Structure" THEN validate_schemas
    ELSE IF name = "Constraints" THEN validate_constraints
    ELSE validate_data_integrity(SampleSize)

C1_EveryCallReturnsFive ==
    \A k \in 1..Len(returns) :
        /\ Len(returns[k]) = 5
        /\ \A c \in 1..5 :
              Cardinality({i \in 1..Len(returns[k]) :
                              returns[k][i].check_name = CheckNames[c]}) = 1
        /\ \A i \in 1..Len(returns[k]) :
              LET r == returns[k][i] IN
              OutcomeOf(r.check_name).raised =>
                  /\ ~r.passed
                  /\ r.message = [text |-> "Error", exc |-> OutcomeOf(r.check_name).exc]

\* ---------------------------------------------------------------------
\* C2: when a query for one source table raises in a per-table check, on either
\* side, the check is marked failed, keeps its detail list, and every other
\* table has there the line it has without the error.
UndisturbedLine(name, u) ==
    IF name = "Row Counts" THEN RowCountLine(u)
    ELSE IF name = "Schema Structure" THEN SchemaLine(u)
    ELSE IF name = "Constraints" THEN ConstraintLine(u)
    ELSE IntegrityLine(u, SampleSize)

C2_OneTableErrorKeepsOthers ==
    \A name \in PerTableChecks : \A r \in ResultsNamed(name) :
        \A s \in Sides, t \in SourceTables :
            (~SourceListingFails /\ Raises(s, KindOf(name), t)) =>
                /\ ~r.passed
                /\ r.source_value.kind = "list"
                /\ \A u \in SourceTables \ {t} : UndisturbedLine(name, u) \in Lines(r)

\* ---------------------------------------------------------------------
\* C3 as stated: main() exits with 0 exactly when every result of its run
\* passed, with 1 otherwise, and with 1 and no check run when a connection
\* cannot be made.
Connected == reachable["source"] /\ reachable["target"]

C3_ExitZeroIffAllPassed ==
    (pc = "done" /\ ~library) =>
        /\ exitCode \in {0, 1}
        /\ Connected => (exitCode = 0 <=> AllPassed(results))
        /\ ~Connected => (exitCode = 1 /\ calls = 0 /\ results = << >>)

\* C3 as amended: the exit code is 0 exactly when every result passed and neither
\* print_report nor export_report raised; it is 1 otherwise, also when a
\* connection cannot be made, and then no check has run.
C3_ExitZeroIffAllPassedAndReported ==
    (pc = "done" /\ ~library) =>
        /\ exitCode \in {0, 1}
        /\ Connected =>
              /\ Len(results) = 5
              /\ exitCode = 0 <=>
                    (AllPassed(results) /\ stdout_ok /\ (output_file => file_ok))
        /\ ~Connected => (exitCode = 1 /\ calls = 0 /\ results = << >>)

\* All five checks passed, the export raised, and the process ended with 1.
C3_Witness ==
    /\ pc = "done" /\ ~library /\ Connected
    /\ Len(results) = 5 /\ AllPassed(results)
    /\ output_file /\ ~file_ok /\ exitCode = 1

\* ---------------------------------------------------------------------
\* Two databases with the same tables, columns, types, primary keys, other
\* constraints and rows (the rows in any physical order), whose queries work.
SameContent(t) ==
    /\ db["source"][t].present = db["target"][t].present
    /\ db["source"][t].present =>
          /\ db["source"][t].schema = db["target"][t].schema
          /\ Range(db["source"][t].pk) = Range(db["target"][t].pk)
          /\ db["source"][t].others = db["target"][t].others
          /\ Range(db["source"][t].rows) = Range(db["target"][t].rows)
          /\ Len(db["source"][t].rows) = Len(db["target"][t].rows)

IdenticalDatabases == fail = {} /\ \A t \in TableNames : SameContent(t)

\* Both sides fetch the rows of t in one order whatever the storage: the key is
\* a single column; or the storage order and the leading key column agree.
SameFetchOrder(t) ==
    \/ Len(db["source"][t].pk) = 1
    \/ /\ db["source"][t].rows = db["target"][t].rows
       /\ db["source"][t].pk = db["target"][t].pk

\* C4 as stated: identical databases pass all five checks, whatever the key of a
\* table and whatever the physical order of its rows.
C4_IdenticalAllPass ==
    (IdenticalDatabases /\ Len(returns) >= 1) =>
        (Len(returns[1]) = 5 /\ AllPassed(returns[1]))

\* C4 as amended: identical databases pass all five checks when every table has
\* a single-column primary key (whatever the physical order of its rows) or is
\* stored in the same physical order, with the same leading key column, on
\* both sides.
C4_IdenticalAllPassWhenOrdered ==
    (IdenticalDatabases /\ (\A t \in SourceTables : SameFetchOrder(t)) /\ Len(returns) >= 1) =>
        (Len(returns[1]) = 5 /\ AllPassed(returns[1]))

\* Identical databases, a table with a single-column key stored in two
\* different orders, every other table stored alike: all five checks passed.
C4_Witness ==
    /\ IdenticalDatabases /\ Len(returns) >= 1 /\ AllPassed(returns[1])
    /\ \A t \in SourceTables : SameFetchOrder(t)
    /\ \E t \in SourceTables :
          /\ Len(db["source"][t].pk) = 1
          /\ db["source"][t].rows # db["target"][t].rows

\* ---------------------------------------------------------------------
\* C5: a second call of run_all_validations against the unchanged databases
\* returns the same (check_name, passed, message) sequence as the first.
C5_SecondCallSameAsFirst ==
    Len(returns) >= 2 => Triples(returns[2]) = Triples(returns[1])

\* ---------------------------------------------------------------------
\* C6: Table Existence passes exactly when no source table is missing from the
\* target; the message names the missing tables, else the extra tables, else
\* says that all tables are present.
MissingTables == SourceTables \ TargetTables
ExtraTables == TargetTables \ SourceTables

C6_TableExistence ==
    \A r \in ResultsNamed("Table Existence") :
        ~ListingFails =>
            /\ r.passed <=> (MissingTables = {})
            /\ MissingTables # {} =>
                  /\ r.message.text = "Missing tables in target"
                  /\ Range(r.message.tables) = MissingTables
                  /\ Len(r.message.tables) = Cardinality(MissingTables)
            /\ (MissingTables = {} /\ ExtraTables # {}) =>
                  /\ r.message.text = "Extra tables in target (OK)"
                  /\ Range(r.message.tables) = ExtraTables
                  /\ Len(r.message.tables) = Cardinality(ExtraTables)
            /\ (MissingTables = {} /\ ExtraTables = {}) =>
                  /\ r.message.text = "All tables present in both databases"
                  /\ r.message.n = Cardinality(SourceTables)

\* The target holds a table the source lacks and misses none: the check passed.
C6_Witness ==
    /\ ~ListingFails /\ MissingTables = {} /\ ExtraTables # {}
    /\ \E r \in ResultsNamed("Table Existence") : r.passed

\* ---------------------------------------------------------------------
\* C7: in Row Counts a table matches exactly when its two counts are equal, a
\* target count that cannot be read is 0, the check passes exactly when every
\* source table matches, and the line of a table depends on that table alone.
SourceCount(t) == Len(db["source"][t].rows)
TargetCount(t) == IF TargetUnreadable("count", t) THEN 0 ELSE Len(db["target"][t].rows)

C7_RowCounts ==
    \A r \in ResultsNamed("Row Counts") :
        ~SourceListingFails =>
            /\ r.passed <=>
                  /\ ~SourceFailsSome("count")
                  /\ \A t \in SourceTables : SourceCount(t) = TargetCount(t)
            /\ ~SourceFailsSome("count") =>
                  /\ r.source_value.kind = "list"
                  /\ \A t \in SourceTables :
                        LinesOf(r, t) =
                           {[status |-> IF SourceCount(t) = TargetCount(t)
                                        THEN "ok" ELSE "bad",
                             table |-> t,
                             source_count |-> SourceCount(t),
                             target_count |-> TargetCount(t)]}

\* One table's counts differ, another table's line is a match, the check failed.
C7_Witness ==
    \E r \in ResultsNamed("Row Counts") :
        /\ ~r.passed
        /\ \E l1, l2 \in Lines(r) :
              /\ l1.status = "bad" /\ l1.source_count < l1.target_count
              /\ l2.status = "ok" /\ l2.source_count > 0

\* ---------------------------------------------------------------------
\* C8: in Schema Structure a table matches exactly when the two sets of
\* (column name, data type) pairs are equal; nullability, default and
\* max_length do not count; a target schema that cannot be read is empty; the
\* failure line carries the symmetric difference of the column-name sets.
NameTypePairs(schema) == {<<schema[i].name, schema[i].type>> : i \in 1..Len(schema)}
ColumnNames(schema) == {schema[i].name : i \in 1..Len(schema)}
SourceColumns(t) == db["source"][t].schema
TargetColumns(t) == IF TargetUnreadable("schema", t) THEN << >> ELSE db["target"][t].schema
SchemasAgree(t) == NameTypePairs(SourceColumns(t)) = NameTypePairs(TargetColumns(t))

C8_SchemaStructure ==
    \A r \in ResultsNamed("Schema Structure") :
        ~SourceListingFails =>
            /\ r.passed <=>
                  /\ ~SourceFailsSome("schema")
                  /\ \A t \in SourceTables : SchemasAgree(t)
            /\ ~SourceFailsSome("schema") =>
                  /\ r.source_value.kind = "list"
                  /\ \A t \in SourceTables :
                        /\ Cardinality(LinesOf(r, t)) = 1
                        /\ \A l \in LinesOf(r, t) :
                              /\ (l.status = "ok") <=> SchemasAgree(t)
                              /\ l.status = "bad" =>
                                    l.diff_cols =
                                       (ColumnNames(SourceColumns(t))
                                           \ ColumnNames(TargetColumns(t)))
                                       \cup (ColumnNames(TargetColumns(t))
                                                \ ColumnNames(SourceColumns(t)))

\* A table whose column differs in nullability, default or max_length only is
\* reported as matching.
C8_Witness ==
    \E r \in ResultsNamed("Schema Structure") : \E t \in SourceTables :
        /\ db["target"][t].present
        /\ db["source"][t].schema # db["target"][t].schema
        /\ \E l \in LinesOf(r, t) : l.status = "ok"

\* ---------------------------------------------------------------------
\* C9: a table with a single-column primary key and the same rows on both sides
\* is reported as matching whatever the physical order of the rows: both
\* sides hash the first SampleSize rows in ascending key order.
RECURSIVE AscendingByKey(_, _)
\* The rows of the set S by ascending value of column c (the c values differ).
AscendingByKey(S, c) ==
    IF S = {} THEN << >>
    ELSE LET least == CHOOSE r \in S : \A q \in S : r[c] <= q[c]
         IN  <<least>> \o AscendingByKey(S \ {least}, c)

SingleKeyTable(t) ==
    /\ db["source"][t].present /\ db["target"][t].present
    /\ <<"source", "checksum", t>> \notin fail
    /\ <<"target", "checksum", t>> \notin fail
    /\ Len(db["source"][t].pk) = 1
    /\ db["source"][t].pk = db["target"][t].pk

KeySample(s, t) ==
    Take(AscendingByKey(Range(db[s][t].rows), db[s][t].pk[1]), SampleSize)

C9_SingleKeyOrderIndependent ==
    \A r \in ResultsNamed("Data Integrity") : \A t \in SourceTables :
        (~SourceListingFails /\ SingleKeyTable(t)) =>
            /\ Cardinality(LinesOf(r, t)) = 1
            /\ \A l \in LinesOf(r, t) :
                  /\ l.source_prefix = Prefix(Digest(Serialize(KeySample("source", t))))
                  /\ l.target_prefix = Prefix(Digest(Serialize(KeySample("target", t))))
                  /\ Range(db["source"][t].rows) = Range(db["target"][t].rows)
                        => l.status = "ok"

\* A single-key table stored in two different physical orders matched.
C9_Witness ==
    \E r \in ResultsNamed("Data Integrity") : \E t \in SourceTables :
        /\ SingleKeyTable(t)
        /\ Range(db["source"][t].rows) = Range(db["target"][t].rows)
        /\ db["source"][t].rows # db["target"][t].rows
        /\ Len(db["source"][t].rows) > SampleSize
        /\ \E l \in LinesOf(r, t) : l.status = "ok"

\* ---------------------------------------------------------------------
\* C10: in Constraints a table matches exactly when source and target have the
\* same number of PRIMARY KEY rows; other constraints do not count; a target
\* that is absent or cannot be read has none; the check passes exactly when
\* every source table matches.
SourceKeyRows(t) == Len(db["source"][t].pk)
TargetKeyRows(t) == IF TargetUnreadable("constraints", t) THEN 0 ELSE Len(db["target"][t].pk)

C10_Constraints ==
    \A r \in ResultsNamed("Constraints") :
        ~SourceListingFails =>
            /\ r.passed <=>
                  /\ ~SourceFailsSome("constraints")
                  /\ \A t \in SourceTables : SourceKeyRows(t) = TargetKeyRows(t)
            /\ ~SourceFailsSome("constraints") =>
                  /\ r.source_value.kind = "list"
                  /\ \A t \in SourceTables :
                        /\ Cardinality(LinesOf(r, t)) = 1
                        /\ \A l \in LinesOf(r, t) :
                              (l.status = "ok") <=> (SourceKeyRows(t) = TargetKeyRows(t))

\* A table whose sides differ in a UNIQUE or FOREIGN KEY constraint only is
\* reported as matching.
C10_Witness ==
    \E r \in ResultsNamed("Constraints") : \E t \in SourceTables :
        /\ db["target"][t].present
        /\ db["source"][t].others # db["target"][t].others
        /\ \E l \in LinesOf(r, t) : l.status = "ok"

\* ---------------------------------------------------------------------
\* C11: the detail list of a per-table check that completed has exactly one
\* line per table of the source, in ascending order of the table names, and
\* none for a table of the target only; such a table fails no check: a failed
\* result is an error result, or has a mismatch line of a source table, or is
\* Table Existence with a source table missing from the target.
LineTables(r) == [i \in 1..Len(r.source_value.items) |-> r.source_value.items[i].table]

Ascending(seq) == \A i, j \in 1..Len(seq) : i < j => seq[i] < seq[j]

C11_OneLinePerSourceTable ==
    \A i \in 1..Len(results) :
        LET r == results[i] IN
        /\ (r.check_name \in PerTableChecks /\ r.source_value.kind = "list") =>
              /\ Len(r.source_value.items) = Cardinality(SourceTables)
              /\ Range(LineTables(r)) = SourceTables
              /\ Ascending(LineTables(r))
              /\ r.passed <=> \A l \in Lines(r) : l.status = "ok"
        /\ (r.check_name = "Table Existence" /\ r.source_value.kind = "list") =>
              (r.passed <=> MissingTables = {})

\* The target holds a table the source lacks; a call has returned, every
\* per-table check with a line for each source table only, and all passed.
C11_Witness ==
    /\ ExtraTables # {} /\ Cardinality(SourceTables) >= 2
    /\ Len(returns) >= 1 /\ AllPassed(returns[1])
    /\ \A i \in 2..5 : Range(LineTables(returns[1][i])) = SourceTables

\* ---------------------------------------------------------------------
\* C12: the checks run in the order Table Existence, Row Counts, Schema
\* Structure, Constraints, Data Integrity: when a check is about to start, the
\* checks before it in this call have appended their results and no later one
\* has, and the results of each call lie in the list in that order, raised
\* or not.
PositionOf(name) == CHOOSE c \in 1..5 : CheckNames[c] = name

C12_FixedOrder ==
    /\ \A i \in 1..Len(results) : results[i].check_name = CheckNames[((i - 1) % 5) + 1]
    /\ pc \in Range(CheckNames) => Len(results) = 5 * (calls - 1) + PositionOf(pc) - 1
    /\ pc \in {"return", "returned"} => Len(results) = 5 * calls

\* A call has returned in which a check other than the last raised.
C12_Witness ==
    /\ Len(returns) >= 1
    /\ \E i \in 1..4 : returns[1][i].message.text = "Error"
    /\ \E i \in 1..5 : returns[1][i].message.text # "Error"

\* ---------------------------------------------------------------------
\* The rows of a table in ascending order of column c, rows of equal c in
\* storage order: the positions are picked one by one, least (value, position)
\* first.
RECURSIVE PickAscending(_, _, _)
PickAscending(rows, left, c) ==
    IF left = {} THEN << >>
    ELSE LET i == CHOOSE k \in left :
                     \A m \in left : \/ rows[k][c] < rows[m][c]
                                     \/ rows[k][c] = rows[m][c] /\ k <= m
         IN  <<rows[i]>> \o PickAscending(rows, left \ {i}, c)

StoredSample(s, t) == Take(db[s][t].rows, SampleSize)

LeadingKeySample(s, t) ==
    Take(PickAscending(db[s][t].rows, 1..Len(db[s][t].rows), db[s][t].pk[1]), SampleSize)

Sampled(t) ==
    /\ db["source"][t].present /\ db["target"][t].present
    /\ <<"source", "checksum", t>> \notin fail
    /\ <<"target", "checksum", t>> \notin fail

SamplePrefix(rows) == Prefix(Digest(Serialize(rows)))

\* C13 as stated: the sample of a table is ordered by the key only when the key
\* is a single column; with a composite key, as with none, it is the first
\* rows in storage order.
C13_ComposedKeyUnordered ==
    \A r \in ResultsNamed("Data Integrity") : \A t \in SourceTables :
        (~SourceListingFails /\ Sampled(t)) =>
            \A l \in LinesOf(r, t) :
                /\ l.source_prefix =
                      SamplePrefix(IF Len(db["source"][t].pk) = 1
                                   THEN LeadingKeySample("source", t)
                                   ELSE StoredSample("source", t))
                /\ l.target_prefix =
                      SamplePrefix(IF Len(db["target"][t].pk) = 1
                                   THEN LeadingKeySample("target", t)
                                   ELSE StoredSample("target", t))

\* C13 as amended: the sample of a table with a primary key, single-column or
\* composite, is ordered by the one key column the lookup returns first (rows
\* equal in it stay in storage order); only a table with no primary key is
\* sampled in storage order.
C13_OrderedByLeadingKeyColumn ==
    \A r \in ResultsNamed("Data Integrity") : \A t \in SourceTables :
        (~SourceListingFails /\ Sampled(t)) =>
            /\ Cardinality(LinesOf(r, t)) = 1
            /\ \A l \in LinesOf(r, t) :
                  /\ l.source_prefix =
                        SamplePrefix(IF db["source"][t].pk # << >>
                                     THEN LeadingKeySample("source", t)
                                     ELSE StoredSample("source", t))
                  /\ l.target_prefix =
                        SamplePrefix(IF db["target"][t].pk # << >>
                                     THEN LeadingKeySample("target", t)
                                     ELSE StoredSample("target", t))

\* A table with a composite key whose two sides are stored in different orders
\* was sampled in key order on both sides, not in storage order, and matched.
C13_Witness ==
    \E r \in ResultsNamed("Data Integrity") : \E t \in SourceTables :
        /\ Sampled(t)
        /\ Len(db["source"][t].pk) = 2 /\ Len(db["target"][t].pk) = 2
        /\ db["source"][t].rows # db["target"][t].rows
        /\ LeadingKeySample("source", t) # StoredSample("source", t)
        /\ \E l \in LinesOf(r, t) :
              /\ l.status = "ok"
              /\ l.source_prefix # SamplePrefix(StoredSample("source", t))

\* ---------------------------------------------------------------------
\* C14: no step of the validator core changes a connection; a connection is
\* opened once and, once closed, stays closed; both are open all through the
\* validation run; main() ends with both closed however the run was left, with
\* the source closed when the target could not be reached, and with none
\* opened when the source could not be reached.
CorePositions ==
    {"new_validator", "run_all", "return", "returned", "export"} \cup Range(CheckNames)

C14_State ==
    /\ pc \in CorePositions \cup {"sys_exit", "finally"} =>
          conn = [s \in Sides |-> "open"]
    /\ (pc = "done" /\ library) => conn = [s \in Sides |-> "open"]
    /\ (pc = "done" /\ ~library) =>
          conn = IF ~reachable["source"] THEN [s \in Sides |-> "none"]
                 ELSE IF ~reachable["target"]
                      THEN [s \in Sides |-> IF s = "source" THEN "closed" ELSE "none"]
                      ELSE [s \in Sides |-> "closed"]

C14_Step ==
    /\ pc \in CorePositions => conn' = conn
    /\ \A s \in Sides :
          /\ (conn'[s] = "open" /\ conn[s] # "open") => conn[s] = "none"
          /\ conn[s] = "closed" => conn'[s] = "closed"

C14_ConnectionsOwnedByMain == [](C14_State) /\ [][C14_Step]_vars

\* main() ended after an exception of print_report or export_report, with both
\* connections closed.
C14_Witness ==
    /\ pc = "done" /\ ~library /\ pending = "exception"
    /\ Len(results) = 5
    /\ conn = [s \in Sides |-> "closed"]
====
